---- MODULE Spec2Model ----
(***************************************************************************)
(* A state-machine model of the adaptive worker pool of                    *)
(* include/workspace: the work branch (workbranch.hpp), whose workers run  *)
(* workbranch::mission, and the operations that drive it: submit,          *)
(* wait_tasks, add_worker, del_worker and the destructor.                  *)
(*                                                                         *)
(* Every thread of the program is a process with a program counter.  A     *)
(* step of a process is one of: a load or store of an atomic outside the   *)
(* branch mutex `lok`, one operation of the task queue, or a section that  *)
(* runs under `lok` between two points at which other threads can observe  *)
(* it.  A condition variable is the set of threads whose program counter   *)
(* is at its wait; notify_one moves one of them, notify_all all of them,   *)
(* to the point at which they re-acquire `lok` and re-evaluate their       *)
(* predicate.                                                              *)
(***************************************************************************)
EXTENDS Integers, Sequences, FiniteSets, TLC

\* ------------------------------------------------------------------ bounds
\* The number of wait_tasks and del_worker calls is not bounded: the state
\* holds no count of them.
MaxWorkers == 2      \* workers a branch is constructed with
MaxTasks == 2        \* tasks submitted in one behaviour
MaxDelNum == 2       \* largest argument of del_worker
MaxPasses == 2       \* control passes of the supervisor that are counted
MaxSeqLen == 3       \* callables of one sequence submission

\* worker_next_id only makes the keys of the registry unique: the model
\* hands out the lowest ids no live worker holds, so that add_worker can be
\* called any number of times, and keeps no counter.
MaxIds == MaxWorkers + 1
WorkerIds == 0 .. (MaxIds - 1)
TaskIds == 1 .. MaxTasks
NoTask == 0
WaitCallers == {1, 2}
DelCallers == {1, 2}
Strategies == {"lowlatancy", "balance", "blocking"}
Tags == {"normal", "urgent"}

\* holders of the branch mutex
NoHolder == <<"none", 0>>
Wk(w) == <<"worker", w>>
Wt(c) == <<"wait_tasks", c>>
Dl(d) == <<"del_worker", d>>

VARIABLES
    wait_strategy,      \* workbranch::wait_strategy
    workers,            \* keys of workbranch::workers (the registry)
    busy,               \* worker_info::busy of each id
    tq,                 \* workbranch::tq, head first
    idle_workers, resumed_workers, pending_deletions,
    deleting, waiting, destructing,     \* workbranch::worker_state
    lok,                \* holder of workbranch::lok
    wpc,                \* where each worker thread is in mission()
    task,               \* mission()'s local `task`
    submitted,          \* number of submit calls that pushed their task
    ppc,                \* the producer: "idle" or between push and notify_one
    executed,           \* how many times each task's body has run
    tpc, timed, res, tret,           \* wait_tasks callers
    dpc, num, prior,                 \* del_worker callers
    xpc,                \* the thread running ~workbranch (and ~dynbranch)
    \* supervisor
    stop, wmin, wmax, tout, tval, default_idle_timeout,
    spv_lok,            \* holder of supervisor::spv_lok
    branch_limits,      \* supervisor::branch_limits, a sequence of BranchLimits
    spc,                \* where the supervisor thread is in supervisor::mission
    bi,                 \* index of `limit` in the loop over branch_limits
    tknums, wknums, size,   \* locals of supervisor::mission
    passes,             \* control passes completed (counted up to MaxPasses)
    \* callers of the supervisor and of the dyn-branch
    cfg,                \* the arguments the constructor was called with
    alast,              \* the call of supervise or set_worker_limits that returned last
    suspended,          \* "suspended" after suspend, "resumed" after a later proceed
    ypc,                \* the thread running ~dynbranch
    \* tasks
    kind,               \* the tag each task was submitted with
    behind,             \* for an urgent task: the normal tasks queued at its submit
    seqlen,             \* number of callables of a Sequence task (0: a single callable)
    step,               \* rexec: index of the callable a worker invokes next
    ran,                \* invocations of each task's callables: <<worker, index>>
    thrown              \* the callables of each task that raised

branchV == <<wait_strategy, workers, busy>>
countV == <<idle_workers, resumed_workers, pending_deletions>>
flagV == <<deleting, waiting, destructing>>
workerV == <<wpc, task>>
prodV == <<submitted, ppc>>
waitV == <<tpc, timed, res, tret>>
delV == <<dpc, num, prior>>
spvV == <<stop, wmin, wmax, tout, tval, default_idle_timeout, spv_lok, branch_limits,
          spc, bi, tknums, wknums, size, passes>>
apiV == <<cfg, alast, suspended, ypc>>
seqV == <<kind, behind, seqlen, step, ran, thrown>>
extV == <<spvV, apiV, seqV>>
vars == <<branchV, tq, countV, flagV, lok, workerV, prodV, executed, waitV, delV, xpc, extV>>

\* ------------------------------------------------------- the task queue
\* taskqueue<task_t>: a thread-safe deque, popped at the head.
push_back(q, t) == Append(q, t)
push_front(q, t) == <<t>> \o q
length(q) == Len(q)
num_tasks == length(tq)

\* std::min
Min(a, b) == IF a <= b THEN a ELSE b

\* --------------------------------------------------- condition variables
\* notify_one on the condition variable whose waiters are the threads of
\* pcs at `blocked`: the possible results (none waiting: nothing happens).
NotifyOne(pcs, blocked, woken) ==
    IF \E t \in DOMAIN pcs : pcs[t] = blocked
    THEN {[pcs EXCEPT ![t] = woken] : t \in {u \in DOMAIN pcs : pcs[u] = blocked}}
    ELSE {pcs}

NotifyAll(pcs, blocked, woken) ==
    [t \in DOMAIN pcs |-> IF pcs[t] = blocked THEN woken ELSE pcs[t]]

\* task_cv is only notified under the blocking strategy
NotifyTaskCvAll(pcs) ==
    IF wait_strategy = "blocking" THEN NotifyAll(pcs, "wft_blocked", "wait_for_task") ELSE pcs

NotifyTaskCvOne(pcs) ==
    IF wait_strategy = "blocking" THEN NotifyOne(pcs, "wft_blocked", "wait_for_task") ELSE {pcs}

\* worker_state::updated()
updated == deleting \/ waiting \/ destructing

\* mutant of is_alive: every thread is reported as ended
is_alive_never(w) == wpc[w] = "ended"

\* autothread<detach>::is_alive of the thread of worker w
is_alive(w) == wpc[w] \notin {"unborn", "exited"}

\* --------------------------------------------------------------- Init
\* The state after workbranch(wks, strategy): max(wks, 1) workers, each at
\* the top of mission().
InitBranch(wks) ==
    /\ wait_strategy \in Strategies
    /\ workers = 0 .. (wks - 1)
    /\ busy = [w \in WorkerIds |-> FALSE]
    /\ tq = <<>>
    /\ idle_workers = 0 /\ resumed_workers = 0 /\ pending_deletions = 0
    /\ deleting = FALSE /\ waiting = FALSE /\ destructing = FALSE
    /\ lok = NoHolder
    /\ wpc = [w \in WorkerIds |-> IF w < wks THEN "top" ELSE "unborn"]
    /\ task = [w \in WorkerIds |-> NoTask]
    /\ submitted = 0 /\ ppc = "idle"
    /\ executed = [t \in TaskIds |-> 0]
    /\ tpc = [c \in WaitCallers |-> "idle"]
    /\ timed = [c \in WaitCallers |-> FALSE]
    /\ res = [c \in WaitCallers |-> FALSE]
    /\ tret = [c \in WaitCallers |-> "none"]
    /\ dpc = [d \in DelCallers |-> "idle"]
    /\ num = [d \in DelCallers |-> 0]
    /\ prior = [d \in DelCallers |-> 0]
    /\ xpc = "alive"

\* no supervisor has been constructed
NoSupervisor ==
    /\ stop = FALSE /\ wmin = 0 /\ wmax = 0 /\ tout = 0 /\ tval = 0
    /\ default_idle_timeout = 0
    /\ spv_lok = NoHolder
    /\ branch_limits = <<>>
    /\ spc = "none" /\ bi = 0 /\ tknums = 0 /\ wknums = 0 /\ size = 0 /\ passes = 0
    /\ cfg = [form |-> "none"] /\ alast = [op |-> "none"] /\ suspended = "no" /\ ypc = "alive"

\* no task has been submitted
NoTasks ==
    /\ kind = [t \in TaskIds |-> "none"]
    /\ behind = [t \in TaskIds |-> {}]
    /\ seqlen = [t \in TaskIds |-> 0]
    /\ step = [w \in WorkerIds |-> 0]
    /\ ran = [t \in TaskIds |-> <<>>]
    /\ thrown = [t \in TaskIds |-> {}]

\* a work branch on its own
Init == \E wks \in 1 .. MaxWorkers : InitBranch(wks) /\ NoSupervisor /\ NoTasks

\* ------------------------------------------------------- condvar predicates
\* wait_tasks, line 172: every registered worker has parked
idle_pred == idle_workers >= Cardinality(workers)

\* wait_tasks, line 181: every parked worker has acknowledged the release
ack_pred == resumed_workers >= idle_workers

\* wait_resume, line 475: the barrier has been released
resume_pred == ~waiting

\* mutant of deletion_pred: the caller stops waiting one ticket early
deletion_pred_early == pending_deletions <= 1

\* del_worker, line 422: every ticket has been claimed
deletion_pred == pending_deletions = 0

\* wait_for_task, line 446 (blocking strategy)
task_pred == num_tasks > 0 \/ updated

\* task_idle_cv.notify_one(), task_resume_cv.notify_one(), task_deletion_cv.notify_one()
NotifyIdleCv(pcs) == NotifyOne(pcs, "idle_blocked", "idle_woken")
NotifyResumeCv(pcs) == NotifyOne(pcs, "ack_blocked", "ack_woken")
NotifyDeletionCv(pcs) == NotifyOne(pcs, "del_blocked", "del_woken")
\* thread_cv.notify_one(), thread_cv.notify_all()
NotifyThreadCvOne(pcs) == NotifyOne(pcs, "resume_blocked", "resume_woken")
NotifyThreadCvAll(pcs) == NotifyAll(pcs, "resume_blocked", "resume_woken")

\* --------------------------------------------------------- the worker loop
\* mission(), line 487: the load of worker_state.destructing
mission_destructing(w) ==
    /\ wpc[w] = "top"
    /\ wpc' = [wpc EXCEPT ![w] = IF destructing THEN "declining" ELSE "top_deleting"]
    /\ UNCHANGED <<branchV, tq, countV, flagV, lok, task, prodV, executed, waitV, delV, xpc, extV>>

\* mission(), line 487: the load of worker_state.deleting (destructing was false)
mission_deleting(w) ==
    /\ wpc[w] = "top_deleting"
    /\ wpc' = [wpc EXCEPT ![w] = IF deleting THEN "declining" ELSE "pop"]
    /\ UNCHANGED <<branchV, tq, countV, flagV, lok, task, prodV, executed, waitV, delV, xpc, extV>>

\* check_declining(), lines 453-455: take lok; with a ticket outstanding,
\* claim it (lok is kept for the erase); with none, return false.
check_declining(w) ==
    /\ wpc[w] = "declining"
    /\ lok = NoHolder
    /\ IF pending_deletions > 0
       THEN /\ pending_deletions' = pending_deletions - 1
            /\ lok' = Wk(w)
            /\ wpc' = [wpc EXCEPT ![w] = "declining_erase"]
       ELSE /\ wpc' = [wpc EXCEPT ![w] = "pop"]
            /\ UNCHANGED <<pending_deletions, lok>>
    /\ UNCHANGED <<branchV, tq, idle_workers, resumed_workers, flagV, task,
                   prodV, executed, waitV, delV, xpc, extV>>

\* check_declining(), lines 456-464: erase the worker's entry, notify the
\* waiters, release lok and leave mission().
check_declining_erase(w) ==
    /\ wpc[w] = "declining_erase"
    /\ lok = Wk(w)
    /\ workers' = workers \ {w}
    /\ tpc' \in (IF waiting THEN NotifyIdleCv(tpc) ELSE {tpc})
    /\ wpc' \in (IF destructing
                 THEN NotifyThreadCvOne([wpc EXCEPT ![w] = "exited"])
                 ELSE {[wpc EXCEPT ![w] = "exited"]})
    /\ dpc' \in NotifyDeletionCv(dpc)
    /\ lok' = NoHolder
    /\ UNCHANGED <<wait_strategy, busy, tq, countV, flagV, task,
                   prodV, executed, timed, res, tret, num, prior, xpc, extV>>

\* mission(), line 493: tq.try_pop(task)
try_pop(w) ==
    /\ wpc[w] = "pop"
    /\ IF length(tq) > 0
       THEN /\ task' = [task EXCEPT ![w] = Head(tq)]
            /\ tq' = Tail(tq)
            /\ wpc' = [wpc EXCEPT ![w] = "mark_busy"]
       ELSE /\ wpc' = [wpc EXCEPT ![w] = "waiting_load"]
            /\ UNCHANGED <<task, tq>>
    /\ UNCHANGED <<branchV, countV, flagV, lok, prodV, executed, waitV, delV, xpc, extV>>

\* mission(), lines 494-497: workers[id].mark_busy() under lok
\* (operator[] inserts the key when it is absent)
mark_busy(w) ==
    /\ wpc[w] = "mark_busy"
    /\ lok = NoHolder
    /\ workers' = workers \cup {w}
    /\ busy' = [busy EXCEPT ![w] = TRUE]
    /\ wpc' = [wpc EXCEPT ![w] = "task"]
    /\ UNCHANGED <<wait_strategy, tq, countV, flagV, lok, task,
                   prodV, executed, waitV, delV, xpc, extV>>

\* mission(), lines 499-500: task() runs to its end (a task that is not a
\* sequence)
run_task(w) ==
    /\ wpc[w] = "task"
    /\ kind[task[w]] \notin {"sequence", "calls"}
    /\ executed' = [executed EXCEPT ![task[w]] = @ + 1]
    /\ task' = [task EXCEPT ![w] = NoTask]
    /\ wpc' = [wpc EXCEPT ![w] = "mark_idle"]
    /\ UNCHANGED <<branchV, tq, countV, flagV, lok, prodV, waitV, delV, xpc, extV>>

\* mission(), lines 502-505: workers[id].mark_idle() under lok
mark_idle(w) ==
    /\ wpc[w] = "mark_idle"
    /\ lok = NoHolder
    /\ workers' = workers \cup {w}
    /\ busy' = [busy EXCEPT ![w] = FALSE]
    /\ wpc' = [wpc EXCEPT ![w] = "wait_for_task"]
    /\ UNCHANGED <<wait_strategy, tq, countV, flagV, lok, task,
                   prodV, executed, waitV, delV, xpc, extV>>

\* mission(), line 507: the load of worker_state.waiting after a failed pop
mission_waiting(w) ==
    /\ wpc[w] = "waiting_load"
    /\ wpc' = [wpc EXCEPT ![w] = IF waiting THEN "wait_resume" ELSE "wait_for_task"]
    /\ UNCHANGED <<branchV, tq, countV, flagV, lok, task, prodV, executed, waitV, delV, xpc, extV>>

\* wait_resume(), lines 475-478 with lok held: with the predicate true,
\* acknowledge and leave; otherwise release lok and block on thread_cv.
resume_or_block(w, pcs) ==
    IF resume_pred
    THEN /\ resumed_workers' = resumed_workers + 1
         /\ tpc' \in NotifyResumeCv(pcs)
         /\ wpc' = [wpc EXCEPT ![w] = "wait_for_task"]
    ELSE /\ tpc' = pcs
         /\ wpc' = [wpc EXCEPT ![w] = "resume_blocked"]
         /\ UNCHANGED resumed_workers

\* wait_resume(), lines 471-478: count this worker as parked, notify
\* task_idle_cv, then wait on thread_cv for the release
wait_resume(w) ==
    /\ wpc[w] = "wait_resume"
    /\ lok = NoHolder
    /\ idle_workers' = idle_workers + 1
    /\ \E pcs \in NotifyIdleCv(tpc) : resume_or_block(w, pcs)
    /\ UNCHANGED <<branchV, tq, pending_deletions, flagV, lok, task, prodV, executed,
                   timed, res, tret, delV, xpc, extV>>

\* mutant of wait_resume_wake: thread_cv.wait without its predicate, so
\* that any wakeup counts as the release
wait_resume_wake_nopred(w) ==
    /\ wpc[w] = "resume_woken"
    /\ lok = NoHolder
    /\ resumed_workers' = resumed_workers + 1
    /\ tpc' \in NotifyResumeCv(tpc)
    /\ wpc' = [wpc EXCEPT ![w] = "wait_for_task"]
    /\ UNCHANGED <<branchV, tq, idle_workers, pending_deletions, flagV, lok, task,
                   prodV, executed, timed, res, tret, delV, xpc, extV>>

\* wait_resume(), line 475: a woken worker re-acquires lok and re-evaluates
wait_resume_wake(w) ==
    /\ wpc[w] = "resume_woken"
    /\ lok = NoHolder
    /\ resume_or_block(w, tpc)
    /\ UNCHANGED <<branchV, tq, idle_workers, pending_deletions, flagV, lok, task,
                   prodV, executed, timed, res, tret, delV, xpc, extV>>

\* wait_for_task(), lines 427-450.  lowlatancy: yield.  balance: yield, or
\* sleep once spin_count has reached max_spin_count; the two differ only in
\* how long the worker stays away, so spin_count is not part of the state.
\* blocking: take lok and evaluate the predicate; when it is false the
\* thread goes on, lok still held, to task_cv.wait.
wait_for_task(w) ==
    /\ wpc[w] = "wait_for_task"
    /\ IF wait_strategy = "blocking"
       THEN /\ lok = NoHolder
            /\ IF task_pred
               THEN wpc' = [wpc EXCEPT ![w] = "top"] /\ UNCHANGED lok
               ELSE wpc' = [wpc EXCEPT ![w] = "wft_wait"] /\ lok' = Wk(w)
       ELSE /\ wpc' = [wpc EXCEPT ![w] = "top"]
            /\ UNCHANGED lok
    /\ UNCHANGED <<branchV, tq, countV, flagV, task, prodV, executed, waitV, delV, xpc, extV>>

\* wait_for_task(), line 446: task_cv.wait releases lok and blocks, at once
wait_for_task_block(w) ==
    /\ wpc[w] = "wft_wait"
    /\ lok = Wk(w)
    /\ lok' = NoHolder
    /\ wpc' = [wpc EXCEPT ![w] = "wft_blocked"]
    /\ UNCHANGED <<branchV, tq, countV, flagV, task, prodV, executed, waitV, delV, xpc, extV>>

\* a step of worker w that needs neither a barrier nor a ticket
mission_work(w) ==
    \/ mission_destructing(w)
    \/ mission_deleting(w)
    \/ try_pop(w)
    \/ mark_busy(w)
    \/ run_task(w)
    \/ mark_idle(w)
    \/ mission_waiting(w)
    \/ wait_for_task(w)
    \/ wait_for_task_block(w)

\* the steps of wait_resume
mission_barrier(w) == wait_resume(w) \/ wait_resume_wake(w)

\* the steps of check_declining
mission_retire(w) == check_declining(w) \/ check_declining_erase(w)

\* ----------------------------------------------------------------- submit
\* submit<T>(task), lines 253-274: add_task<T> pushes the wrapped task
\* (normal: push_back, otherwise push_front), without lok.
add_task_back(tag, t) == push_back(tq, t)

add_task(tag, t) == IF tag = "normal" THEN push_back(tq, t) ELSE push_front(tq, t)

submit(tag) ==
    /\ ppc = "idle"
    /\ xpc # "done"
    /\ submitted < MaxTasks
    /\ submitted' = submitted + 1
    /\ tq' = add_task(tag, submitted + 1)
    /\ ppc' = IF wait_strategy = "blocking" THEN "notify" ELSE "idle"
    /\ UNCHANGED <<branchV, countV, flagV, lok, workerV, executed, waitV, delV, xpc, spvV, apiV>>

\* submit, line 273: task_cv.notify_one(), without lok
submit_notify ==
    /\ ppc = "notify"
    /\ wpc' \in NotifyTaskCvOne(wpc)
    /\ ppc' = "idle"
    /\ UNCHANGED <<branchV, tq, countV, flagV, lok, task, submitted, executed,
                   waitV, delV, xpc, extV>>

\* a producer of single tasks that stops when the destruction begins
producer == (\E tag \in Tags : submit(tag) /\ xpc = "alive" /\ UNCHANGED seqV) \/ submit_notify

\* ------------------------------------------------- tagged and sequence
\* the tasks in a queue
queued(q) == {q[i] : i \in 1 .. Len(q)}

\* submit<T>(task) with a record of the call: the tag of the task, and for
\* an urgent task submitted while the queue holds only normal tasks, the
\* tasks that are queued at that moment
submit_tagged(tag) ==
    /\ submit(tag)
    /\ xpc = "alive"
    /\ kind' = [kind EXCEPT ![submitted + 1] = tag]
    /\ behind' = [behind EXCEPT ![submitted + 1] =
                     IF tag = "urgent" /\ \A u \in queued(tq) : kind[u] = "normal"
                     THEN queued(tq) ELSE {}]
    /\ UNCHANGED <<seqlen, step, ran, thrown>>

\* submit<sequence>(f1, ..., fn), lines 282-299: tq.push_back of one task
\* that calls rexec(f1, ..., fn) inside one try/catch.  th is the set of
\* callables that throw when they are invoked.
submit_sequence(n, th) ==
    /\ ppc = "idle"
    /\ xpc = "alive"
    /\ submitted < MaxTasks
    /\ submitted' = submitted + 1
    /\ tq' = push_back(tq, submitted + 1)
    /\ ppc' = IF wait_strategy = "blocking" THEN "notify" ELSE "idle"
    /\ kind' = [kind EXCEPT ![submitted + 1] = "sequence"]
    /\ seqlen' = [seqlen EXCEPT ![submitted + 1] = n]
    /\ thrown' = [thrown EXCEPT ![submitted + 1] = th]
    /\ UNCHANGED <<branchV, countV, flagV, lok, workerV, executed, waitV, delV, xpc,
                   spvV, apiV, behind, step, ran>>

\* rexec, lines 515-526, with the callables in reverse order
next_callable_rev(done, n) == n - done

\* rexec, lines 515-526: the callable invoked after `done` of the n have
\* returned
next_callable(done, n) == done + 1

\* mission(), line 499, for a sequence task: rexec invokes one callable.
\* When it throws, the exception leaves rexec and is caught by the handler
\* of the task (lines 288-296), and the task is over; so it is when the
\* last callable returns.
run_sequence(w) ==
    /\ wpc[w] = "task"
    /\ kind[task[w]] = "sequence"
    /\ LET t == task[w]
           f == next_callable(step[w], seqlen[t])
       IN /\ ran' = [ran EXCEPT ![t] = Append(@, <<w, f>>)]
          /\ IF f \in thrown[t] \/ step[w] + 1 = seqlen[t]
             THEN /\ executed' = [executed EXCEPT ![t] = @ + 1]
                  /\ task' = [task EXCEPT ![w] = NoTask]
                  /\ step' = [step EXCEPT ![w] = 0]
                  /\ wpc' = [wpc EXCEPT ![w] = "mark_idle"]
             ELSE /\ step' = [step EXCEPT ![w] = @ + 1]
                  /\ UNCHANGED <<executed, task, wpc>>
    /\ UNCHANGED <<branchV, tq, countV, flagV, lok, prodV, waitV, delV, xpc,
                   spvV, apiV, kind, behind, seqlen, thrown>>

\* ------------------------------------------------------------- wait_tasks
\* wait_tasks(timeout), lines 156-158: while destructing, return false at
\* once.  tm says whether the caller gave a finite timeout.
wait_tasks_call(c, tm) ==
    /\ tpc[c] = "idle"
    /\ xpc # "done"
    /\ timed' = [timed EXCEPT ![c] = tm]
    /\ IF destructing
       THEN tret' = [tret EXCEPT ![c] = "false"] /\ UNCHANGED tpc
       ELSE tret' = [tret EXCEPT ![c] = "none"] /\ tpc' = [tpc EXCEPT ![c] = "engage"]
    /\ UNCHANGED <<branchV, tq, countV, flagV, lok, workerV, prodV, executed, res, delV, xpc, extV>>

\* wait_tasks, line 171 with lok held: with the predicate true the caller
\* goes on to line 175, lok still held; otherwise, when its timeout has
\* expired, it goes on with res = false; otherwise it releases lok and
\* blocks on task_idle_cv.
idle_or_block(c, expired) ==
    IF idle_pred' \/ expired
    THEN /\ res' = [res EXCEPT ![c] = idle_pred']
         /\ tpc' = [tpc EXCEPT ![c] = "release"]
         /\ lok' = Wt(c)
    ELSE /\ tpc' = [tpc EXCEPT ![c] = "idle_blocked"]
         /\ UNCHANGED <<res, lok>>

\* wait_tasks, lines 162-173: engage the barrier
wait_tasks_engage(c) ==
    /\ tpc[c] = "engage"
    /\ lok = NoHolder
    /\ idle_workers' = 0
    /\ waiting' = TRUE
    /\ wpc' = NotifyTaskCvAll(wpc)
    /\ UNCHANGED workers
    /\ idle_or_block(c, FALSE)
    /\ UNCHANGED <<wait_strategy, busy, tq, resumed_workers, pending_deletions,
                   deleting, destructing, task, prodV, executed, timed, tret,
                   delV, xpc, extV>>

\* wait_tasks, line 171: the timeout of wait_for expires while the caller is blocked
wait_tasks_timeout(c) ==
    /\ tpc[c] = "idle_blocked"
    /\ timed[c]
    /\ tpc' = [tpc EXCEPT ![c] = "idle_timedout"]
    /\ UNCHANGED <<branchV, tq, countV, flagV, lok, workerV, prodV, executed, timed, res,
                   tret, delV, xpc, extV>>

\* wait_tasks, line 171: a woken or timed-out caller re-acquires lok and re-evaluates
wait_tasks_idle_wake(c) ==
    /\ tpc[c] \in {"idle_woken", "idle_timedout"}
    /\ lok = NoHolder
    /\ UNCHANGED <<idle_workers, workers>>
    /\ idle_or_block(c, tpc[c] = "idle_timedout")
    /\ UNCHANGED <<wait_strategy, busy, tq, resumed_workers, pending_deletions,
                   flagV, workerV, prodV, executed, timed, tret, delV, xpc, extV>>

\* wait_tasks, lines 175-176: clear `waiting` and release lok (the barrier-release instant)
wait_tasks_release(c) ==
    /\ tpc[c] = "release"
    /\ lok = Wt(c)
    /\ waiting' = FALSE
    /\ lok' = NoHolder
    /\ tpc' = [tpc EXCEPT ![c] = "recover"]
    /\ UNCHANGED <<branchV, tq, countV, deleting, destructing, workerV, prodV, executed, timed,
                   res, tret, delV, xpc, extV>>

\* wait_tasks, line 178: thread_cv.notify_all(), without lok
wait_tasks_recover(c) ==
    /\ tpc[c] = "recover"
    /\ wpc' = NotifyThreadCvAll(wpc)
    /\ tpc' = [tpc EXCEPT ![c] = "ack_woken"]
    /\ UNCHANGED <<branchV, tq, countV, flagV, lok, task, prodV, executed, timed, res, tret,
                   delV, xpc, extV>>

\* wait_tasks, lines 180-183: wait until the parked workers have
\* acknowledged, zero resumed_workers and return res
wait_tasks_ack(c) ==
    /\ tpc[c] = "ack_woken"
    /\ lok = NoHolder
    /\ IF ack_pred
       THEN /\ resumed_workers' = 0
            /\ tret' = [tret EXCEPT ![c] = IF res[c] THEN "true" ELSE "false"]
            /\ tpc' = [tpc EXCEPT ![c] = "idle"]
       ELSE /\ tpc' = [tpc EXCEPT ![c] = "ack_blocked"]
            /\ UNCHANGED <<resumed_workers, tret>>
    /\ UNCHANGED <<branchV, tq, idle_workers, pending_deletions, flagV, lok, workerV, prodV,
                   executed, timed, res, delV, xpc, extV>>

\* the steps of one wait_tasks call, after the call itself
wait_tasks_steps(c) ==
    \/ wait_tasks_engage(c)
    \/ wait_tasks_timeout(c)
    \/ wait_tasks_idle_wake(c)
    \/ wait_tasks_release(c)
    \/ wait_tasks_recover(c)
    \/ wait_tasks_ack(c)

wait_tasks(c) == (\E tm \in BOOLEAN : wait_tasks_call(c, tm)) \/ wait_tasks_steps(c)

\* ------------------------------------------------------ spurious wakeups
\* std::condition_variable::wait may return without a notification; the
\* thread then re-acquires lok and re-evaluates its predicate.
spurious_worker(w) ==
    /\ wpc[w] \in {"wft_blocked", "resume_blocked"}
    /\ wpc' = [wpc EXCEPT ![w] = IF @ = "wft_blocked" THEN "wait_for_task" ELSE "resume_woken"]
    /\ UNCHANGED <<branchV, tq, countV, flagV, lok, task, prodV, executed, waitV, delV, xpc, extV>>

spurious_waiter(c) ==
    /\ tpc[c] \in {"idle_blocked", "ack_blocked"}
    /\ tpc' = [tpc EXCEPT ![c] = IF @ = "idle_blocked" THEN "idle_woken" ELSE "ack_woken"]
    /\ UNCHANGED <<branchV, tq, countV, flagV, lok, workerV, prodV, executed, timed, res,
                   tret, delV, xpc, extV>>

\* ------------------------------------------------- the barrier, specified
\* Workers, a producer and one caller of wait_tasks.
ProgramWait ==
    \/ \E w \in WorkerIds : mission_work(w) \/ mission_barrier(w)
    \/ submit_notify
    \/ wait_tasks_steps(1)

NextWait ==
    \/ \E w \in WorkerIds : mission_work(w) \/ mission_barrier(w) \/ spurious_worker(w)
    \/ producer
    \/ wait_tasks(1) \/ spurious_waiter(1)

SpecWait == Init /\ [][NextWait]_vars

\* the steps of a wait_tasks call with the unbounded default timeout
wait_tasks_unbounded(c) ==
    \/ wait_tasks_engage(c)
    \/ wait_tasks_idle_wake(c)
    \/ wait_tasks_release(c)
    \/ wait_tasks_recover(c)
    \/ wait_tasks_ack(c)

\* SpecWait2: workers, a producer and two threads that call wait_tasks()
\* with the unbounded default timeout.
ProgramWait2 ==
    \/ \E w \in WorkerIds : mission_work(w) \/ mission_barrier(w)
    \/ submit_notify
    \/ \E c \in WaitCallers : wait_tasks_unbounded(c)

NextWait2 ==
    \/ \E w \in WorkerIds : mission_work(w) \/ mission_barrier(w) \/ spurious_worker(w)
    \/ producer
    \/ \E c \in WaitCallers : wait_tasks_call(c, FALSE) \/ wait_tasks_unbounded(c)
                                \/ spurious_waiter(c)

SpecWait2 == Init /\ [][NextWait2]_vars


\* ------------------------------------------------ add_worker, del_worker
\* the ids add_worker(n) hands out: the n lowest that no live worker holds
RECURSIVE fresh_ids(_, _)
fresh_ids(n, used) ==
    IF n = 0 \/ WorkerIds \subseteq used THEN {}
    ELSE LET id == CHOOSE i \in WorkerIds \ used : \A j \in WorkerIds \ used : i <= j
         IN {id} \cup fresh_ids(n - 1, used \cup {id})

\* the ids held by a registered worker or by a thread that is still running
ids_in_use == workers \cup {w \in WorkerIds : wpc[w] \notin {"unborn", "exited"}}

\* add_worker(n), lines 394-400: under lok, n new ids, each with a thread
\* that starts mission()
add_worker(n) ==
    /\ xpc = "alive"
    /\ lok = NoHolder
    /\ Cardinality(ids_in_use) + n <= MaxIds
    /\ LET new == fresh_ids(n, ids_in_use) IN
         /\ workers' = workers \cup new
         /\ wpc' = [w \in WorkerIds |-> IF w \in new THEN "top" ELSE wpc[w]]
         /\ busy' = [w \in WorkerIds |-> IF w \in new THEN FALSE ELSE busy[w]]
    /\ UNCHANGED <<wait_strategy, tq, countV, flagV, lok, task, prodV, executed,
                   waitV, delV, xpc, apiV, seqV>>

\* del_worker, line 409: the request is dropped when the registry is empty
\* or holds fewer than n workers
del_rejects(n) == workers = {} \/ Cardinality(workers) < n

\* del_worker(n) is called
del_worker_call(d, n) ==
    /\ dpc[d] = "idle"
    /\ xpc = "alive"
    /\ num' = [num EXCEPT ![d] = n]
    /\ dpc' = [dpc EXCEPT ![d] = "check"]
    /\ UNCHANGED <<branchV, tq, countV, flagV, lok, workerV, prodV, executed, waitV, prior, xpc,
                   apiV, seqV>>

\* del_worker, lines 407-412: the size check in a lock scope of its own
\* (prior records the registry size the check saw)
del_worker_check(d) ==
    /\ dpc[d] = "check"
    /\ lok = NoHolder
    /\ prior' = [prior EXCEPT ![d] = Cardinality(workers)]
    /\ dpc' = [dpc EXCEPT ![d] = IF del_rejects(num[d]) THEN "idle" ELSE "post"]
    /\ UNCHANGED <<branchV, tq, countV, flagV, lok, workerV, prodV, executed, waitV, num, xpc,
                   extV>>

\* del_worker, line 422 with lok held: with every ticket claimed go on to
\* line 424, otherwise release lok and block on task_deletion_cv
deletion_or_block(d) ==
    IF deletion_pred'
    THEN dpc' = [dpc EXCEPT ![d] = "clear"] /\ lok' = Dl(d)
    ELSE dpc' = [dpc EXCEPT ![d] = "del_blocked"] /\ UNCHANGED lok

\* del_worker, lines 413-422: post n tickets, set `deleting`, wake the workers
del_worker_post(d) ==
    /\ dpc[d] = "post"
    /\ lok = NoHolder
    /\ pending_deletions' = pending_deletions + num[d]
    /\ deleting' = TRUE
    /\ wpc' = NotifyTaskCvAll(wpc)
    /\ deletion_or_block(d)
    /\ UNCHANGED <<branchV, tq, idle_workers, resumed_workers, waiting, destructing, task,
                   prodV, executed, waitV, num, prior, xpc, extV>>

\* del_worker, line 422: a woken caller re-acquires lok and re-evaluates
del_worker_wake(d) ==
    /\ dpc[d] = "del_woken"
    /\ lok = NoHolder
    /\ UNCHANGED pending_deletions
    /\ deletion_or_block(d)
    /\ UNCHANGED <<branchV, tq, idle_workers, resumed_workers, flagV, workerV, prodV, executed,
                   waitV, num, prior, xpc, extV>>

\* del_worker, lines 424-425: clear `deleting`, release lok, return
del_worker_clear(d) ==
    /\ dpc[d] = "clear"
    /\ lok = Dl(d)
    /\ deleting' = FALSE
    /\ lok' = NoHolder
    /\ dpc' = [dpc EXCEPT ![d] = "idle"]
    /\ UNCHANGED <<branchV, tq, countV, waiting, destructing, workerV, prodV, executed, waitV,
                   num, prior, xpc, extV>>

del_worker_steps(d) ==
    \/ del_worker_check(d)
    \/ del_worker_post(d)
    \/ del_worker_wake(d)
    \/ del_worker_clear(d)

\* a thread other than the supervisor's calls del_worker
del_worker(d) ==
    \/ \E n \in 1 .. MaxDelNum : del_worker_call(d, n) /\ UNCHANGED spvV
    \/ del_worker_steps(d)

spurious_deleter(d) ==
    /\ dpc[d] = "del_blocked"
    /\ dpc' = [dpc EXCEPT ![d] = "del_woken"]
    /\ UNCHANGED <<branchV, tq, countV, flagV, lok, workerV, prodV, executed, waitV, num,
                   prior, xpc, extV>>

\* ------------------------------------------------------------ ~workbranch
\* ~workbranch, lines 115-123: under lok, one ticket per registered worker,
\* set `destructing`, wake the blocking workers
destructor_begin ==
    /\ xpc = "alive"
    /\ lok = NoHolder
    /\ pending_deletions' = Cardinality(workers)
    /\ destructing' = TRUE
    /\ wpc' = NotifyTaskCvAll(wpc)
    /\ xpc' = "poll"
    /\ UNCHANGED <<branchV, tq, idle_workers, resumed_workers, deleting, waiting, lok, task,
                   prodV, executed, waitV, delV, extV>>

\* ~workbranch, lines 125-126 and 139-141: the load of pending_deletions,
\* without lok; at 0 the destructor returns
destructor_poll ==
    /\ xpc = "poll"
    /\ xpc' = IF pending_deletions > 0 THEN "sweep" ELSE "done"
    /\ UNCHANGED <<branchV, tq, countV, flagV, lok, workerV, prodV, executed, waitV, delV, extV>>

\* the registered workers whose thread has ended
ended == {w \in workers : ~is_alive(w)}

\* ~workbranch, lines 127-137 and 143: under lok, erase the entries whose
\* thread has ended, one ticket each; then sleep
destructor_sweep ==
    /\ xpc = "sweep"
    /\ lok = NoHolder
    /\ workers' = workers \ ended
    /\ pending_deletions' = pending_deletions - Cardinality(ended)
    /\ xpc' = "poll"
    /\ UNCHANGED <<wait_strategy, busy, tq, idle_workers, resumed_workers, flagV,
                   lok, workerV, prodV, executed, waitV, delV, extV>>

\* check_declining, lines 456-464, run after ~workbranch has returned: the
\* worker uses members of a destroyed object, and may fault instead of
\* completing (check_declining_erase is the other outcome)
use_after_destroy(w) ==
    /\ wpc[w] = "declining_erase"
    /\ xpc = "done"
    /\ wpc' = [wpc EXCEPT ![w] = "fault"]
    /\ UNCHANGED <<branchV, tq, countV, flagV, lok, task, prodV, executed, waitV, delV, xpc, extV>>

\* ----------------------------------------------- retirement, specified
\* SpecDel: workers, a producer and one caller of del_worker.
NextDel ==
    \/ \E w \in WorkerIds : mission_work(w) \/ mission_retire(w) \/ spurious_worker(w)
    \/ producer
    \/ del_worker(1) \/ spurious_deleter(1)

SpecDel == Init /\ [][NextDel]_vars

\* SpecDel2: workers, a producer and two concurrent callers of del_worker.
ProgramDel2 ==
    \/ \E w \in WorkerIds : mission_work(w) \/ mission_retire(w)
    \/ submit_notify
    \/ \E d \in DelCallers : del_worker_steps(d)

NextDel2 ==
    \/ \E w \in WorkerIds : mission_work(w) \/ mission_retire(w) \/ spurious_worker(w)
    \/ producer
    \/ \E d \in DelCallers : del_worker(d) \/ spurious_deleter(d)

SpecDel2 == Init /\ [][NextDel2]_vars

\* SpecRetire: workers, a producer, one caller of del_worker and the
\* destructor.  A caller of del_worker shares the ownership of the branch
\* (supervisor::BranchLimits::branch), so the destructor starts only when
\* no del_worker call is in progress.
NextRetire ==
    \/ \E w \in WorkerIds : mission_work(w) \/ mission_retire(w) \/ spurious_worker(w)
                             \/ use_after_destroy(w)
    \/ producer
    \/ del_worker(1) \/ spurious_deleter(1)
    \/ (destructor_begin /\ \A d \in DelCallers : dpc[d] = "idle")
    \/ destructor_poll \/ destructor_sweep

SpecRetire == Init /\ [][NextRetire]_vars

\* SpecUrgent: workers and a producer of normal and urgent tasks.
NextUrgent ==
    \/ \E w \in WorkerIds : mission_work(w) \/ spurious_worker(w)
    \/ \E tag \in Tags : submit_tagged(tag)
    \/ submit_notify

SpecUrgent == Init /\ [][NextUrgent]_vars

\* SpecSeq: workers and a producer of normal, urgent and sequence tasks.
NextSeq ==
    \/ \E w \in WorkerIds : mission_work(w) \/ run_sequence(w) \/ spurious_worker(w)
    \/ \E tag \in Tags : submit_tagged(tag)
    \/ \E n \in 1 .. MaxSeqLen : \E th \in SUBSET (1 .. n) : submit_sequence(n, th)
    \/ submit_notify

SpecSeq == Init /\ [][NextSeq]_vars

\* a caller of submit that goes on while the branch is being destroyed
submitter == (\E tag \in Tags : submit(tag) /\ UNCHANGED seqV) \/ submit_notify

\* SpecLate: workers, the destructor, and a caller of submit that does not
\* stop when the destruction begins.
NextLate ==
    \/ \E w \in WorkerIds : mission_work(w) \/ mission_retire(w) \/ spurious_worker(w)
                             \/ use_after_destroy(w)
    \/ submitter
    \/ destructor_begin \/ destructor_poll \/ destructor_sweep

SpecLate == Init /\ [][NextLate]_vars


\* ============================================================ supervisor
default_time_idle == 5000
default_time_interval == 1000
\* std::thread::hardware_concurrency() of the machine
hardware_concurrency == 1

\* the durations a caller passes, in ms
Durations == {default_time_interval, default_time_idle}

\* size_t: the model keeps 16 of its bits
size_mod == 2 ^ 16
\* conversion of an int argument to size_t
to_size_t(i) == i % size_mod
\* unsigned subtraction
size_sub(a, b) == (a - b) % size_mod

\* the branches a supervisor is asked to supervise: 1 is the branch of the
\* model, 2 another one
Branches == {1, 2}
Sv == <<"supervisor", 0>>

\* positions of the entries of branch_limits whose branch is b
entries_of(b) == {i \in 1 .. Len(branch_limits) : branch_limits[i].branch = b}

\* supervise that adds the entry without looking for the branch
registered_append(limits, b, min_workers, max_workers, idle_timeout) ==
    Append(limits, [branch |-> b, min |-> min_workers, max |-> max_workers,
                    idle_timeout |-> idle_timeout])

\* supervise, lines 121-130: branch_limits after the registration of b
registered(limits, b, min_workers, max_workers, idle_timeout) ==
    LET found == {i \in 1 .. Len(limits) : limits[i].branch = b} IN
    IF found = {}
    THEN Append(limits, [branch |-> b, min |-> min_workers, max |-> max_workers,
                         idle_timeout |-> idle_timeout])
    ELSE LET it == CHOOSE i \in found : \A j \in found : i <= j
         IN [limits EXCEPT ![it].min = min_workers,
                           ![it].max = max_workers,
                           ![it].idle_timeout = idle_timeout]

\* supervise(wbr, min_workers, max_workers, idle_timeout), lines 118-131
supervise(b, min_workers, max_workers, idle_timeout) ==
    /\ spc # "none"
    /\ ypc = "alive"
    /\ spv_lok = NoHolder
    /\ branch_limits' = registered(branch_limits, b, min_workers, max_workers, idle_timeout)
    /\ UNCHANGED <<branchV, tq, countV, flagV, lok, workerV, prodV, executed, waitV, delV, xpc,
                   stop, wmin, wmax, tout, tval, default_idle_timeout, spv_lok, spc, bi,
                   tknums, wknums, size, passes, cfg, suspended, ypc, seqV>>

\* supervise(wbr), lines 138-140: the limits the supervisor was constructed with
supervise_default(b) == supervise(b, wmin, wmax, default_idle_timeout)

\* ceil(cores * mult) for a multiple given in halves
ceil_mult(cores, halves) == (cores * halves + 1) \div 2

\* std::max(1u, std::thread::hardware_concurrency())
cores == IF hardware_concurrency > 1 THEN hardware_concurrency ELSE 1

\* supervise(wbr, cpu_multiple_tag, min_core_mult, max_core_mult, idle_timeout), lines 150-156
supervise_cpu(b, min_halves, max_halves, idle_timeout) ==
    supervise(b, to_size_t(ceil_mult(cores, min_halves)),
                 to_size_t(ceil_mult(cores, max_halves)), idle_timeout)

\* dynbranch::set_worker_limits(min_workers, max_workers, idle_timeout), lines 147-150
set_worker_limits(min_workers, max_workers, idle_timeout) ==
    /\ cfg.form \in {"explicit", "cpu_multiple"}
    /\ supervise(1, to_size_t(min_workers), to_size_t(max_workers), idle_timeout)
    /\ alast' = [op |-> "set_worker_limits", branch |-> 1, min |-> min_workers,
                 max |-> max_workers, idle_timeout |-> idle_timeout]

\* dynbranch::set_worker_limits(cpu_multiple_tag, min_core_mult, max_core_mult), lines 155-157
set_worker_limits_cpu(min_halves, max_halves) ==
    /\ cfg.form \in {"explicit", "cpu_multiple"}
    /\ supervise_cpu(1, min_halves, max_halves, default_time_idle)
    /\ alast' = [op |-> "set_worker_limits", branch |-> 1,
                 min |-> ceil_mult(cores, min_halves), max |-> ceil_mult(cores, max_halves),
                 idle_timeout |-> default_time_idle]

\* supervisor(min_wokrs, max_wokrs, idle_timeout, time_interval), lines 54-64:
\* the fields, and the thread at the top of mission()
InitSupervisor(min_wokrs, max_wokrs, idle_timeout, time_interval) ==
    /\ stop = FALSE
    /\ wmin = to_size_t(min_wokrs) /\ wmax = to_size_t(max_wokrs)
    /\ tout = time_interval /\ tval = time_interval
    /\ default_idle_timeout = idle_timeout
    /\ spv_lok = NoHolder
    /\ spc = "loop" /\ bi = 0 /\ tknums = 0 /\ wknums = 0 /\ size = 0 /\ passes = 0
    /\ alast = [op |-> "none"] /\ suspended = "no" /\ ypc = "alive"

\* supervisor(idle_timeout, time_interval), lines 72-75
InitSupervisorDefault(idle_timeout, time_interval) ==
    InitSupervisor(1, IF hardware_concurrency > 2 THEN hardware_concurrency ELSE 2,
                   idle_timeout, time_interval)

\* dynbranch(min_workers, max_workers, strategy, idle_timeout, time_interval),
\* lines 35-42: a branch of one worker, a supervisor, and the registration
\* supervise(branch, min_workers, max_workers)
InitDyn(min_workers, max_workers, idle_timeout, time_interval) ==
    /\ InitBranch(1)
    /\ InitSupervisorDefault(idle_timeout, time_interval)
    /\ branch_limits = registered(<<>>, 1, to_size_t(min_workers), to_size_t(max_workers),
                                  default_time_idle)
    /\ cfg = [form |-> "explicit", min |-> min_workers, max |-> max_workers,
              idle_timeout |-> idle_timeout, time_interval |-> time_interval]
    /\ NoTasks

\* dynbranch(cpu_multiple_tag, min_core_mult, max_core_mult, strategy,
\* idle_timeout, time_interval), lines 53-60: the registration is
\* supervise(branch, cpu_multiple_tag, min_core_mult, max_core_mult, time_interval)
InitDynCpu(min_halves, max_halves, idle_timeout, time_interval) ==
    /\ InitBranch(1)
    /\ InitSupervisorDefault(idle_timeout, time_interval)
    /\ branch_limits = registered(<<>>, 1, to_size_t(ceil_mult(cores, min_halves)),
                                  to_size_t(ceil_mult(cores, max_halves)), time_interval)
    /\ cfg = [form |-> "cpu_multiple", min |-> ceil_mult(cores, min_halves),
              max |-> ceil_mult(cores, max_halves),
              idle_timeout |-> idle_timeout, time_interval |-> time_interval]
    /\ NoTasks

\* a supervisor on its own, next to the branch: no branch registered yet
InitStandalone(min_wokrs, max_wokrs, idle_timeout, time_interval) ==
    /\ InitBranch(1)
    /\ InitSupervisor(min_wokrs, max_wokrs, idle_timeout, time_interval)
    /\ branch_limits = <<>>
    /\ cfg = [form |-> "supervisor", min |-> min_wokrs, max |-> max_wokrs,
              idle_timeout |-> idle_timeout, time_interval |-> time_interval]
    /\ NoTasks

\* suspend(timeout), lines 162-165
suspend(timeout) ==
    /\ spc # "none"
    /\ ypc = "alive"
    /\ spv_lok = NoHolder
    /\ tout' = timeout
    /\ suspended' = "suspended"
    /\ UNCHANGED <<branchV, tq, countV, flagV, lok, workerV, prodV, executed, waitV, delV, xpc,
                   stop, wmin, wmax, tval, default_idle_timeout, spv_lok, branch_limits, spc, bi,
                   tknums, wknums, size, passes, cfg, alast, ypc, seqV>>

\* proceed() that leaves the interval set by suspend in place
proceed_keeps ==
    /\ spc # "none"
    /\ ypc = "alive"
    /\ spv_lok = NoHolder
    /\ suspended' = IF suspended = "no" THEN "no" ELSE "resumed"
    /\ UNCHANGED <<branchV, tq, countV, flagV, lok, workerV, prodV, executed, waitV, delV, xpc,
                   stop, wmin, wmax, tout, tval, default_idle_timeout, spv_lok, branch_limits,
                   spc, bi, tknums, wknums, size, passes, cfg, alast, ypc, seqV>>

\* proceed(), lines 170-173
proceed ==
    /\ spc # "none"
    /\ ypc = "alive"
    /\ spv_lok = NoHolder
    /\ tout' = tval
    /\ suspended' = IF suspended = "no" THEN "no" ELSE "resumed"
    /\ UNCHANGED <<branchV, tq, countV, flagV, lok, workerV, prodV, executed, waitV, delV, xpc,
                   stop, wmin, wmax, tval, default_idle_timeout, spv_lok, branch_limits, spc, bi,
                   tknums, wknums, size, passes, cfg, alast, ypc, seqV>>


\* ---------------------------------------------- configuration, specified
\* the arguments a caller passes
IntArgs == {-1, 1, 2}
SizeArgs == {1, 2}
Halves == {1, 4}

\* the supervisor's constructor asserts these (line 62)
valid_limits(min_wokrs, max_wokrs) == min_wokrs >= 0 /\ max_wokrs > 0 /\ max_wokrs > min_wokrs

\* the calls made on a supervisor that is used on its own
supervisor_calls ==
    /\ cfg.form = "supervisor"
    /\ \E b \in Branches :
         \/ \E mn \in SizeArgs, mx \in SizeArgs, it \in Durations :
               /\ supervise(b, mn, mx, it)
               /\ alast' = [op |-> "supervise", branch |-> b, min |-> mn, max |-> mx,
                            idle_timeout |-> it]
         \/ /\ supervise_default(b)
            /\ alast' = [op |-> "supervise", branch |-> b, min |-> wmin, max |-> wmax,
                         idle_timeout |-> default_idle_timeout]
         \/ \E mh \in Halves, xh \in Halves, it \in Durations :
               /\ supervise_cpu(b, mh, xh, it)
               /\ alast' = [op |-> "supervise", branch |-> b, min |-> ceil_mult(cores, mh),
                            max |-> ceil_mult(cores, xh), idle_timeout |-> it]

\* the calls made on a dyn-branch
dynbranch_calls ==
    \/ \E mn \in IntArgs, mx \in IntArgs, it \in Durations : set_worker_limits(mn, mx, it)
    \/ \E mh \in Halves, xh \in Halves : set_worker_limits_cpu(mh, xh)

\* a dyn-branch constructed in either form, or a supervisor on its own,
\* with the default strategy
InitLimits ==
    /\ wait_strategy = "blocking"
    /\ \E it \in Durations, ti \in Durations :
        \/ \E mn \in IntArgs, mx \in IntArgs : InitDyn(mn, mx, it, ti)
        \/ \E mh \in Halves, xh \in Halves : InitDynCpu(mh, xh, it, ti)
        \/ \E mn \in SizeArgs, mx \in SizeArgs :
              valid_limits(mn, mx) /\ InitStandalone(mn, mx, it, ti)

\* SpecLimits: the configuration calls, each of which runs under spv_lok
\* from its first to its last statement.  The supervisor thread reads the
\* fields they write and writes none of them; it takes no step here.
NextLimits ==
    \/ supervisor_calls
    \/ dynbranch_calls
    \/ \E timeout \in Durations : suspend(timeout)
    \/ proceed

SpecLimits == InitLimits /\ [][NextLimits]_vars

\* ------------------------------------------------- supervisor::mission
\* The supervisor thread calls del_worker as caller 2.
\* line 187: while (!stop)
supervisor_loop ==
    /\ spc = "loop"
    /\ spc' = IF stop THEN "ended" ELSE "lock"
    /\ UNCHANGED <<branchV, tq, countV, flagV, lok, workerV, prodV, executed, waitV, delV, xpc,
                   stop, wmin, wmax, tout, tval, default_idle_timeout, spv_lok, branch_limits,
                   bi, tknums, wknums, size, passes, apiV, seqV>>

\* the loop over branch_limits goes on to entry i, or ends (spv_lok is
\* released at line 215)
next_limit(i) ==
    /\ bi' = i
    /\ spc' = IF i <= Len(branch_limits) THEN "num_tasks" ELSE "unlock"

\* lines 190-191: take spv_lok and start the loop over branch_limits
supervisor_lock ==
    /\ spc = "lock"
    /\ spv_lok = NoHolder
    /\ spv_lok' = Sv
    /\ next_limit(1)
    /\ UNCHANGED <<branchV, tq, countV, flagV, lok, workerV, prodV, executed, waitV, delV, xpc,
                   stop, wmin, wmax, tout, tval, default_idle_timeout, branch_limits,
                   tknums, wknums, size, passes, apiV, seqV>>

\* line 194: tknums = branch->num_tasks()
supervisor_num_tasks ==
    /\ spc = "num_tasks"
    /\ tknums' = num_tasks
    /\ spc' = "num_workers"
    /\ UNCHANGED <<branchV, tq, countV, flagV, lok, workerV, prodV, executed, waitV, delV, xpc,
                   stop, wmin, wmax, tout, tval, default_idle_timeout, spv_lok, branch_limits,
                   bi, wknums, size, passes, apiV, seqV>>

\* line 195: wknums = branch->num_workers(), under lok
supervisor_num_workers ==
    /\ spc = "num_workers"
    /\ lok = NoHolder
    /\ wknums' = Cardinality(workers)
    /\ spc' = "adjust"
    /\ UNCHANGED <<branchV, tq, countV, flagV, lok, workerV, prodV, executed, waitV, delV, xpc,
                   stop, wmin, wmax, tout, tval, default_idle_timeout, spv_lok, branch_limits,
                   bi, tknums, size, passes, apiV, seqV>>

\* `limit` of the loop
limit == branch_limits[bi]

\* a scale-up by the demand alone, without the cap at limit.max
scale_up_uncapped == size_sub(tknums + 1, wknums)

\* line 205: std::min(limit.max - wknums, tknums - wknums), on size_t
scale_up_nums == Min(size_sub(limit.max, wknums), size_sub(tknums, wknums))

\* lines 198-202: more workers than limit.max: del_worker(wknums - limit.max) is called
supervisor_cap ==
    /\ spc = "adjust"
    /\ wknums > limit.max
    /\ del_worker_call(2, wknums - limit.max)
    /\ spc' = "del_worker"
    /\ UNCHANGED <<stop, wmin, wmax, tout, tval, default_idle_timeout, spv_lok, branch_limits,
                   bi, tknums, wknums, size, passes>>

\* lines 204-206: tasks are queued: add_worker(nums)
supervisor_scale_up ==
    /\ spc = "adjust"
    /\ wknums <= limit.max
    /\ tknums > 0
    /\ add_worker(scale_up_nums)
    /\ next_limit(bi + 1)
    /\ UNCHANGED <<stop, wmin, wmax, tout, tval, default_idle_timeout, spv_lok, branch_limits,
                   tknums, wknums, size, passes>>

\* lines 208-209: no task is queued: with more workers than limit.min, go
\* on to count the idle ones; otherwise the entry is done
supervisor_idle ==
    /\ spc = "adjust"
    /\ wknums <= limit.max
    /\ tknums = 0
    /\ IF wknums > limit.min
       THEN spc' = "count_idle" /\ UNCHANGED bi
       ELSE next_limit(bi + 1)
    /\ UNCHANGED <<branchV, tq, countV, flagV, lok, workerV, prodV, executed, waitV, delV, xpc,
                   stop, wmin, wmax, tout, tval, default_idle_timeout, spv_lok, branch_limits,
                   tknums, wknums, size, passes, apiV, seqV>>

\* count_idle_workers(timeout), workbranch.hpp lines 204-217, under lok: the
\* registered workers that are idle and have been for the timeout; any of
\* the idle workers may have been active more recently than that
count_idle_workers == 0 .. Cardinality({w \in workers : ~busy[w]})

\* line 209: size = branch->count_idle_workers(limit.idle_timeout)
supervisor_count_idle ==
    /\ spc = "count_idle"
    /\ lok = NoHolder
    /\ size' \in count_idle_workers
    /\ spc' = "scale_down"
    /\ UNCHANGED <<branchV, tq, countV, flagV, lok, workerV, prodV, executed, waitV, delV, xpc,
                   stop, wmin, wmax, tout, tval, default_idle_timeout, spv_lok, branch_limits,
                   bi, tknums, wknums, passes, apiV, seqV>>

\* a scale-down that retires every worker counted as idle
supervisor_scale_down_all ==
    /\ spc = "scale_down"
    /\ size > limit.min
    /\ del_worker_call(2, size)
    /\ spc' = "del_worker"
    /\ UNCHANGED <<stop, wmin, wmax, tout, tval, default_idle_timeout, spv_lok, branch_limits,
                   bi, tknums, wknums, size, passes>>

\* lines 210-212: del_worker(size - limit.min) is called
supervisor_scale_down ==
    /\ spc = "scale_down"
    /\ size > limit.min
    /\ del_worker_call(2, size - limit.min)
    /\ spc' = "del_worker"
    /\ UNCHANGED <<stop, wmin, wmax, tout, tval, default_idle_timeout, spv_lok, branch_limits,
                   bi, tknums, wknums, size, passes>>

\* line 210: not more idle workers than limit.min: the entry is done
supervisor_keep ==
    /\ spc = "scale_down"
    /\ size <= limit.min
    /\ next_limit(bi + 1)
    /\ UNCHANGED <<branchV, tq, countV, flagV, lok, workerV, prodV, executed, waitV, delV, xpc,
                   stop, wmin, wmax, tout, tval, default_idle_timeout, spv_lok, branch_limits,
                   tknums, wknums, size, passes, apiV, seqV>>

\* lines 200-201 and 211: del_worker has returned
supervisor_del_return ==
    /\ spc = "del_worker"
    /\ dpc[2] = "idle"
    /\ next_limit(bi + 1)
    /\ UNCHANGED <<branchV, tq, countV, flagV, lok, workerV, prodV, executed, waitV, delV, xpc,
                   stop, wmin, wmax, tout, tval, default_idle_timeout, spv_lok, branch_limits,
                   tknums, wknums, size, passes, apiV, seqV>>

\* line 215: the pass is over, spv_lok is released
supervisor_unlock ==
    /\ spc = "unlock"
    /\ spv_lok = Sv
    /\ spv_lok' = NoHolder
    /\ passes' = Min(passes + 1, MaxPasses)
    /\ spc' = "tick"
    /\ UNCHANGED <<branchV, tq, countV, flagV, lok, workerV, prodV, executed, waitV, delV, xpc,
                   stop, wmin, wmax, tout, tval, default_idle_timeout, branch_limits,
                   bi, tknums, wknums, size, apiV, seqV>>

\* lines 217-230: the tick callback when `tout` has elapsed, then the sleep
supervisor_tick ==
    /\ spc = "tick"
    /\ spc' = "loop"
    /\ UNCHANGED <<branchV, tq, countV, flagV, lok, workerV, prodV, executed, waitV, delV, xpc,
                   stop, wmin, wmax, tout, tval, default_idle_timeout, spv_lok, branch_limits,
                   bi, tknums, wknums, size, passes, apiV, seqV>>

\* the steps of the supervisor thread
supervisor_mission ==
    \/ supervisor_loop \/ supervisor_lock
    \/ supervisor_num_tasks \/ supervisor_num_workers
    \/ supervisor_cap \/ supervisor_scale_up \/ supervisor_idle
    \/ supervisor_count_idle \/ supervisor_scale_down \/ supervisor_keep
    \/ supervisor_del_return
    \/ supervisor_unlock \/ supervisor_tick
    \/ del_worker_steps(2)

\* ----------------------------------------------------------- ~dynbranch
\* dynbranch declares `branch` before `supervisor` (lines 22-23): the
\* supervisor is destroyed first.
\* ~dynbranch is called
dynbranch_destroy ==
    /\ ypc = "alive"
    /\ spc # "none"
    /\ ypc' = "stop"
    /\ UNCHANGED <<branchV, tq, countV, flagV, lok, workerV, prodV, executed, waitV, delV, xpc,
                   spvV, cfg, alast, suspended, seqV>>

\* ~supervisor, lines 101-104: stop = true under spv_lok
supervisor_stop ==
    /\ ypc = "stop"
    /\ spv_lok = NoHolder
    /\ stop' = TRUE
    /\ ypc' = "join"
    /\ UNCHANGED <<branchV, tq, countV, flagV, lok, workerV, prodV, executed, waitV, delV, xpc,
                   wmin, wmax, tout, tval, default_idle_timeout, spv_lok, branch_limits, spc,
                   bi, tknums, wknums, size, passes, cfg, alast, suspended, seqV>>

\* ~supervisor, lines 105-107: worker.join() returns when mission() has
\* ended; the members, branch_limits among them, are then destroyed
supervisor_join ==
    /\ ypc = "join"
    /\ spc = "ended"
    /\ branch_limits' = <<>>
    /\ ypc' = "joined"
    /\ UNCHANGED <<branchV, tq, countV, flagV, lok, workerV, prodV, executed, waitV, delV, xpc,
                   stop, wmin, wmax, tout, tval, default_idle_timeout, spv_lok, spc,
                   bi, tknums, wknums, size, passes, cfg, alast, suspended, seqV>>

\* a dyn-branch whose `branch` member is released before its supervisor
dynbranch_release_first ==
    /\ ypc \in {"alive", "joined"}
    /\ destructor_begin

\* ~dynbranch releases `branch`, the last owner: ~workbranch runs
dynbranch_release ==
    /\ ypc = "joined"
    /\ destructor_begin

dynbranch_teardown ==
    \/ dynbranch_destroy \/ supervisor_stop \/ supervisor_join
    \/ dynbranch_release \/ destructor_poll \/ destructor_sweep

\* ------------------------------------------------- dyn-branch, specified
\* the limits a dyn-branch of SpecDyn is constructed with, and the limits
\* its owner may give it later
DynLimits == {<<2, 3>>}
NewLimits == {<<1, 2>>}

\* the owner of the dyn-branch changes the limits, once
dynbranch_relimit ==
    /\ alast.op = "none"
    /\ \E lim \in NewLimits : set_worker_limits(lim[1], lim[2], default_time_idle)

\* dynbranch(min_workers, max_workers) with the default timings
InitDynBranch ==
    \E lim \in DynLimits : InitDyn(lim[1], lim[2], default_time_idle, default_time_interval)

\* the steps the program takes by itself
ProgramDyn ==
    \/ \E w \in WorkerIds : mission_work(w) \/ mission_retire(w)
    \/ submit_notify
    \/ supervisor_mission
    \/ supervisor_stop \/ supervisor_join \/ dynbranch_release
    \/ destructor_poll \/ destructor_sweep

\* SpecDyn: a dyn-branch with its workers and its supervisor thread, a
\* producer, and the owner of the dyn-branch, who may change its limits and
\* destroys it.
NextDyn ==
    \/ \E w \in WorkerIds : mission_work(w) \/ mission_retire(w) \/ spurious_worker(w)
                             \/ use_after_destroy(w)
    \/ producer
    \/ supervisor_mission \/ spurious_deleter(2)
    \/ dynbranch_relimit
    \/ dynbranch_teardown

SpecDyn == InitDynBranch /\ [][NextDyn]_vars

\* SpecScale: a dyn-branch with its workers and its supervisor thread, a
\* producer, and the owner of the dyn-branch, who may change its limits.
NextScale ==
    \/ \E w \in WorkerIds : mission_work(w) \/ mission_retire(w) \/ spurious_worker(w)
    \/ producer
    \/ supervisor_mission \/ spurious_deleter(2)
    \/ dynbranch_relimit

SpecScale == InitDynBranch /\ [][NextScale]_vars

\* --------------------------------------- tasks that call the dyn-branch
\* the limits a dyn-branch of SpecCalls is constructed with, and the limits
\* a task may give it
CallLimits == {<<0, 1>>, <<1, 2>>}
TaskLimits == {<<0, 1>>}

\* submit(task) of a task whose body calls suspend, proceed or
\* set_worker_limits of the dyn-branch that runs it
submit_calling ==
    /\ submit("normal")
    /\ xpc = "alive"
    /\ kind' = [kind EXCEPT ![submitted + 1] = "calls"]
    /\ UNCHANGED <<behind, seqlen, step, ran, thrown>>

\* mission(), line 499, for such a task: the call takes spv_lok
\* (supervisor.hpp lines 119, 163, 171), which the supervisor thread holds
\* for a whole control pass; it makes its change, releases spv_lok, and the
\* task returns.
task_calls(w) ==
    /\ wpc[w] = "task"
    /\ kind[task[w]] = "calls"
    /\ spv_lok = NoHolder
    /\ \/ \E timeout \in Durations :
            /\ tout' = timeout
            /\ suspended' = "suspended"
            /\ UNCHANGED <<branch_limits, alast>>
       \/ /\ tout' = tval
          /\ suspended' = IF suspended = "no" THEN "no" ELSE "resumed"
          /\ UNCHANGED <<branch_limits, alast>>
       \/ \E lim \in TaskLimits :
            /\ branch_limits' = registered(branch_limits, 1, to_size_t(lim[1]),
                                           to_size_t(lim[2]), default_time_idle)
            /\ alast' = [op |-> "set_worker_limits", branch |-> 1, min |-> lim[1],
                         max |-> lim[2], idle_timeout |-> default_time_idle]
            /\ UNCHANGED <<tout, suspended>>
    /\ executed' = [executed EXCEPT ![task[w]] = @ + 1]
    /\ task' = [task EXCEPT ![w] = NoTask]
    /\ wpc' = [wpc EXCEPT ![w] = "mark_idle"]
    /\ UNCHANGED <<branchV, tq, countV, flagV, lok, prodV, waitV, delV, xpc,
                   stop, wmin, wmax, tval, default_idle_timeout, spv_lok, spc, bi,
                   tknums, wknums, size, passes, cfg, ypc, seqV>>

\* dynbranch(min_workers, max_workers) with the default timings
InitCalls ==
    \E lim \in CallLimits : InitDyn(lim[1], lim[2], default_time_idle, default_time_interval)

\* SpecCalls: a dyn-branch with its workers and its supervisor thread, and
\* a producer of plain tasks and of tasks that call the dyn-branch.
NextCalls ==
    \/ \E w \in WorkerIds : mission_work(w) \/ mission_retire(w) \/ task_calls(w)
                             \/ spurious_worker(w)
    \/ producer
    \/ submit_calling
    \/ supervisor_mission \/ spurious_deleter(2)

SpecCalls == InitCalls /\ [][NextCalls]_vars

\* ------------------------------------------------------ the whole branch
\* Every thread at once.  The claims are checked under the specifications
\* above, each of which fixes the callers that are present.
Next ==
    \/ \E w \in WorkerIds : mission_work(w) \/ mission_barrier(w) \/ mission_retire(w)
                             \/ spurious_worker(w) \/ use_after_destroy(w)
    \/ producer
    \/ \E n \in 1 .. MaxWorkers : add_worker(n) /\ UNCHANGED spvV
    \/ wait_tasks(1) \/ spurious_waiter(1)
    \/ \E d \in DelCallers : del_worker(d) \/ spurious_deleter(d)
    \/ (destructor_begin /\ \A d \in DelCallers : dpc[d] = "idle")
    \/ destructor_poll \/ destructor_sweep

Spec == Init /\ [][Next]_vars

\* ======================================================== claims C1 - C6
\* every task submitted so far has run
AllSubmittedRan == tq = <<>> /\ \A t \in 1 .. submitted : executed[t] = 1

\* worker w is parked at the barrier: inside thread_cv.wait of wait_resume
Parked(w) == wpc[w] \in {"resume_blocked", "resume_woken"}

\* worker w has popped a task whose body has not yet returned
InFlight(w) == wpc[w] \in {"mark_busy", "task"}

\* C1: every task whose submit returned is eventually executed, exactly
\* once, unless destruction starts first.  In the form a finite run
\* refutes: no task body runs twice, and while a task is queued and the
\* branch is not destructing some thread of the program can still take a
\* step (otherwise the task is never popped).
C1_SubmittedTaskRuns ==
    /\ \A t \in TaskIds : executed[t] <= 1
    /\ (tq # <<>> /\ ppc = "idle" /\ ~destructing) => ENABLED ProgramWait

\* C2: when wait_tasks is about to return true, at the instant it clears
\* `waiting` the queue is empty and every registered worker is idle and
\* parked at the barrier.
C2_QuiescentAtRelease ==
    \A c \in WaitCallers :
        (tpc[c] = "release" /\ res[c]) =>
            /\ num_tasks = 0
            /\ \A w \in workers : ~busy[w] /\ Parked(w)

\* C3: when no wait_tasks call is in progress, every worker released from
\* the barrier has acknowledged (none is still inside the resume wait) and
\* resumed_workers is 0.
C3_AcknowledgedAtReturn ==
    (\A c \in WaitCallers : tpc[c] = "idle") =>
        /\ resumed_workers = 0
        /\ \A w \in WorkerIds : ~Parked(w)

\* C4: a wait_tasks call with an unbounded timeout eventually returns once
\* every submitted task has finished.  In the form a finite run refutes:
\* while such a call is in progress and every submitted task has run, some
\* thread of the program can still take a step.
C4_UnboundedWaitReturns ==
    \A c \in WaitCallers :
        (tpc[c] # "idle" /\ ~timed[c] /\ ppc = "idle" /\ AllSubmittedRan) => ENABLED ProgramWait

\* C5: a wait_tasks call that timed out has, at its return, cleared
\* `waiting`, and every worker that had parked has left the resume wait.
C5_TimeoutReleasesAll ==
    \A c \in WaitCallers :
        (tpc[c] = "idle" /\ timed[c] /\ tret[c] = "false") =>
            /\ ~waiting
            /\ \A w \in WorkerIds : ~Parked(w)

\* C6 as stated: while `waiting` is set no worker pops a task from the
\* queue and starts it.
C6_NoPopWhileWaiting ==
    [][waiting => \A w \in WorkerIds : ~(wpc[w] = "pop" /\ wpc'[w] = "mark_busy")]_vars

\* C6 as amended: while `waiting` is set, a worker that has parked at the
\* barrier stays parked (it pops nothing and starts nothing); the workers
\* that have not parked go on draining the queue.
C6_ParkedStaysParked ==
    [][\A w \in WorkerIds : (waiting /\ waiting' /\ Parked(w)) => Parked(w)']_vars

\* C6 witness: the barrier is engaged, a worker is parked and has been
\* woken, and a task is in the queue
C6_Witness ==
    \E w \in WorkerIds : waiting /\ wpc[w] = "resume_woken" /\ num_tasks > 0


\* ======================================================= claims C7 - C10
\* del_worker call of caller d has returned
Returned(d) == dpc[d] = "idle" /\ num[d] > 0

C8_NoTaskInterrupted ==
    [][\A w \in WorkerIds :
          /\ (w \in workers /\ w \notin workers') =>
                 (wpc[w] = "declining_erase" /\ ~busy[w] /\ task[w] = NoTask)
          /\ InFlight(w) =>
                 /\ w \in workers'
                 /\ InFlight(w)' \/ executed'[task[w]] = executed[task[w]] + 1]_vars

\* C8 witness: a task is executing while a retirement ticket is outstanding
C8_Witness ==
    \E w \in WorkerIds : wpc[w] = "task" /\ busy[w] /\ pending_deletions > 0

\* C9: every del_worker call eventually returns, with pending_deletions 0
\* and `deleting` false at its return, also when two calls run
\* concurrently.  In the form a finite run refutes: a call about to return
\* sees no ticket outstanding, and while a call is in progress some thread
\* of the program can still take a step.
C9_DelWorkerReturns ==
    \A d \in DelCallers :
        /\ dpc[d] = "clear" => pending_deletions = 0
        /\ dpc[d] # "idle" => ENABLED ProgramDel2

\* C10: when the destructor has returned, the registry is empty, every
\* worker thread has left its loop and no task is still executing.
C10_DestructorWaitsForWorkers ==
    xpc = "done" =>
        /\ workers = {}
        /\ \A w \in WorkerIds : wpc[w] \in {"unborn", "exited"}

\* ====================================================== claims C11 - C20
\* the teardown of the dyn-branch is complete
TornDown == xpc = "done" /\ \A w \in WorkerIds : wpc[w] \in {"unborn", "exited"}

\* C11: once the destruction of a dyn-branch has begun, the supervisor
\* thread stops and is joined, every worker exits and the branch destructor
\* returns.  In the form a finite run refutes: no worker ends otherwise
\* than by leaving its loop, and until the teardown is complete some thread
\* of the program can still take a step.
C11_TeardownTerminates ==
    /\ \A w \in WorkerIds : wpc[w] # "fault"
    /\ (ypc # "alive" /\ ppc = "idle" /\ ~TornDown) => ENABLED ProgramDyn

\* C12: once `destructing` is true, no submit call adds a task to the
\* queue.
C12_NoSubmitWhileDestructing ==
    [][destructing => Len(tq') <= Len(tq)]_vars

\* task t has been taken from the queue
Popped(t) == t <= submitted /\ t \notin queued(tq)

\* the body of task t has begun to run
Began(t) == executed[t] >= 1 \/ ran[t] # <<>>

\* C13 as stated: an urgent task submitted while the queue holds only
\* normal tasks begins execution before each of the normal tasks that were
\* queued at its submit.
C13_UrgentBeginsFirst ==
    \A t \in TaskIds : \A u \in behind[t] : Began(u) => Began(t)

\* C13, amended: such an urgent task is popped before each of the normal
\* tasks that were queued at its submit, and with one worker it also begins
\* execution before them.
C13_UrgentPoppedFirst ==
    \A t \in TaskIds : \A u \in behind[t] :
        /\ Popped(u) => Popped(t)
        /\ (Cardinality(workers) = 1 /\ Began(u)) => Began(t)

\* an urgent task and a normal task that was queued at its submit have
\* both run
C13_Witness ==
    \E t \in TaskIds : \E u \in behind[t] : executed[t] = 1 /\ executed[u] = 1

\* the invocations of the callables of sequence t so far are f1, ..., fk,
\* in this order, all by worker w
InOrderBy(t, w) == \A i \in 1 .. Len(ran[t]) : ran[t][i] = <<w, i>>

\* C14: a sequence submission adds one task at the tail of the queue, and
\* at every moment the callables of a sequence that have been invoked are
\* f1, ..., fk in this order, each once and all by the same worker, which
\* is still at fk's sequence until the task is over.
C14_SequenceInOrder ==
    /\ [](\A t \in TaskIds :
            /\ Len(ran[t]) <= seqlen[t]
            /\ \E w \in WorkerIds : InOrderBy(t, w)
            /\ \A w \in WorkerIds :
                 (task[w] = t /\ kind[t] = "sequence" /\ wpc[w] = "task")
                     => (InOrderBy(t, w) /\ Len(ran[t]) = step[w]))
    /\ [][\A t \in TaskIds :
            (kind[t] = "none" /\ kind'[t] = "sequence") => tq' = Append(tq, t)]_vars

\* a sequence of at least two callables has run to its end while another
\* task ran
C14_Witness ==
    \E t \in TaskIds : \E u \in TaskIds \ {t} :
        /\ kind[t] = "sequence" /\ seqlen[t] >= 2 /\ Len(ran[t]) = seqlen[t]
        /\ executed[t] = 1 /\ executed[u] = 1

\* C15: when a sequence task is over, every one of its callables has been
\* invoked, whichever of them threw.
C15_EveryCallableInvoked ==
    \A t \in TaskIds :
        (kind[t] = "sequence" /\ executed[t] = 1) => Len(ran[t]) = seqlen[t]

\* C16: once the supervisor has made MaxPasses control passes over a
\* dyn-branch whose limits are [min, max] since its construction, between
\* two passes the number of registered workers is in [min, max], whether
\* tasks are queued or not.
C16_CountWithinLimits ==
    (ypc = "alive" /\ alast.op = "none" /\ passes = MaxPasses /\ spc \in {"tick", "loop"}) =>
        /\ branch_limits[1].min <= Cardinality(workers)
        /\ Cardinality(workers) <= branch_limits[1].max

\* the limits of the dyn-branch's own branch, as the control loop reads them
own_limit == branch_limits[CHOOSE i \in entries_of(1) : TRUE]

\* C17: after the construction of a dyn-branch in either form, and until
\* set_worker_limits is called, the idle timeout of its branch's limits is
\* the idle_timeout argument of the constructor.
C17_IdleTimeoutPassedThrough ==
    (cfg.form \in {"explicit", "cpu_multiple"} /\ alast.op = "none") =>
        own_limit.idle_timeout = cfg.idle_timeout

\* C18: there is at most one entry per branch, and after a call of
\* supervise or set_worker_limits the one entry of its branch holds the
\* limits of that call, whatever was registered before.
C18_ReRegistrationUpdates ==
    /\ \A b \in Branches : Cardinality(entries_of(b)) <= 1
    /\ alast.op # "none" =>
         \E i \in entries_of(alast.branch) :
             branch_limits[i] = [branch |-> alast.branch, min |-> to_size_t(alast.min),
                                 max |-> to_size_t(alast.max),
                                 idle_timeout |-> alast.idle_timeout]

\* the branch of a dyn-branch, registered by the constructor, has been
\* registered again with other limits
C18_Witness ==
    /\ cfg.form = "explicit" /\ alast.op = "set_worker_limits"
    /\ <<alast.min, alast.max>> # <<cfg.min, cfg.max>>
    /\ Len(branch_limits) = 1

\* an invalid configuration
invalid_limits(mn, mx) == mx <= mn \/ mn < 0 \/ mx < 0

\* the limits of the dyn-branch's branch are those of the arguments mn, mx
installed(mn, mx) == own_limit.min = to_size_t(mn) /\ own_limit.max = to_size_t(mx)

\* C19: an invalid configuration given to the constructor of a dyn-branch
\* or to set_worker_limits is not installed as the limits of its branch.
C19_InvalidLimitsRejected ==
    /\ (cfg.form \in {"explicit", "cpu_multiple"} /\ alast.op = "none"
          /\ invalid_limits(cfg.min, cfg.max)) => ~installed(cfg.min, cfg.max)
    /\ (alast.op = "set_worker_limits" /\ invalid_limits(alast.min, alast.max))
          => ~installed(alast.min, alast.max)

\* C20: once proceed has been called after suspend, and until suspend is
\* called again, the tick interval in effect is the one given at
\* construction; the configured interval never changes.
C20_ProceedRestoresInterval ==
    /\ cfg.form # "none" => tval = cfg.time_interval
    /\ suspended = "resumed" => tout = cfg.time_interval

\* proceed has been called after suspend
C20_Witness ==
    suspended = "resumed" /\ tout = tval

\* ====================================================== claims C21 - C27
\* the number of workers a scale-up step is meant to add: the demand
\* tasks - workers, capped at max - workers and at 0 from below
unit_demand(max_workers, wks, tasks) ==
    LET d == Min(max_workers - wks, tasks - wks) IN IF d > 0 THEN d ELSE 0

\* C21: in the scale-up step of a control pass (workers <= max, tasks > 0)
\* the number of workers added is min(max - workers, tasks - workers) over
\* the integers, capped below at 0.
C21_ScaleUpIsUnitDemand ==
    (spc = "adjust" /\ wknums <= limit.max /\ tknums > 0) =>
        scale_up_nums = unit_demand(limit.max, wknums, tknums)

\* the control pass is in its cap step, or in its scale-down step
InCap == spc = "del_worker" /\ wknums > limit.max
InScaleDown == spc = "del_worker" /\ wknums <= limit.max

\* C22: at the end of every control pass the branch has at most max
\* workers, and when the del_worker call of a cap step has returned it has
\* exactly max workers.
C22_NeverAboveMax ==
    /\ spc = "unlock" => Cardinality(workers) <= branch_limits[1].max
    /\ (InCap /\ dpc[2] = "idle") => Cardinality(workers) = limit.max

\* a cap step has retired workers
C22_Witness ==
    InCap /\ dpc[2] = "idle" /\ Cardinality(workers) = limit.max /\ wknums > limit.max

\* C23: the scale-down step is entered only with more than min workers
\* counted and more than min of them idle, and from the call of del_worker
\* to its return the branch has at least min workers.
C23_NeverBelowMin ==
    /\ spc \in {"count_idle", "scale_down"} => (tknums = 0 /\ wknums > limit.min)
    /\ InScaleDown =>
         /\ size > limit.min
         /\ Cardinality(workers) >= limit.min

\* a scale-down step has retired workers after one of the workers it had
\* counted as idle became busy
C23_Witness ==
    /\ InScaleDown /\ dpc[2] = "idle" /\ Cardinality(workers) < wknums
    /\ \E w \in workers : busy[w]

\* C24: whenever the branch lock is free, the tickets outstanding are not
\* more than the registered workers.
C24_TicketsWithinRegistry ==
    lok = NoHolder => pending_deletions <= Cardinality(workers)

\* C25: `destructing` is set, and the branch destructor runs, only when
\* the supervisor thread has left its control loop and has been joined, no
\* del_worker call of the supervisor being in progress.
C25_SupervisorJoinedFirst ==
    (destructing \/ xpc # "alive") =>
        /\ spc = "ended"
        /\ ypc = "joined"
        /\ dpc[2] = "idle"

\* the branch destructor runs after a supervisor that had added workers
C25_Witness ==
    destructing /\ xpc = "poll" /\ spc = "ended" /\ passes > 0 /\ Cardinality(workers) > 1

\* C26: when two threads call wait_tasks() with the unbounded timeout at
\* the same time, both calls eventually return and no worker stays parked
\* at the barrier.  In the form a finite run refutes: while a call is in
\* progress or a worker is parked, and every submitted task has run, some
\* thread of the program can still take a step.
C26_ConcurrentWaitsReturn ==
    (/\ ppc = "idle" /\ AllSubmittedRan
     /\ \/ \E c \in WaitCallers : tpc[c] # "idle"
        \/ \E w \in WorkerIds : Parked(w))
        => ENABLED ProgramWait2

\* worker w runs a task whose call waits for the supervisor's lock
BlockedOnSpvLok(w) ==
    wpc[w] = "task" /\ kind[task[w]] = "calls" /\ spv_lok # NoHolder

\* C27: in no state does the supervisor wait in del_worker for a ticket to
\* be claimed while every worker thread is blocked, in its task, on the
\* supervisor's lock.
C27_NoDeadlockOnSpvLok ==
    ~ /\ spc = "del_worker" /\ dpc[2] = "del_blocked" /\ pending_deletions > 0
      /\ \A w \in WorkerIds : is_alive(w) => BlockedOnSpvLok(w)


====
